---- MODULE Spec2Model ----
(***************************************************************************)
(* Model of WorkersAIDurableObject (the chat durable object): the          *)
(* webSocketMessage dispatcher, handleChat, handleRegenerate and the       *)
(* conversation RPCs, over the conversations/messages tables; and of the   *)
(* RPC worker in front of it (connect.ts): the interceptor that checks the *)
(* access token, and anonymousRegister, which hands tokens out.            *)
(*                                                                         *)
(* Execution model.  The object is single threaded.  A handler runs        *)
(* without interruption from one await on the completion provider to the   *)
(* next (the SQLite-backed storage calls resolve without leaving the       *)
(* event loop turn), so the variable `running` names the invocation that   *)
(* owns the thread; every statement between two provider awaits is a       *)
(* separate step of that invocation, and new frames, RPCs and provider     *)
(* results are delivered only when `running` is 0.                         *)
(*                                                                         *)
(* Strings are sequences of characters (<<>> is "", and stands for an      *)
(* absent/undefined/null string wherever the code only tests truthiness).  *)
(* A nullable column is a sequence of length at most one (<<>> is NULL).   *)
(***************************************************************************)
EXTENDS Integers, Sequences, FiniteSets, TLC

\* ---- bounds of the model -------------------------------------------------
MaxCmds == 2        \* create/regenerate frames received over the channel
MaxConvs == 1       \* conversation ids ever allocated
SessionChunks == 1  \* deltas one provider stream delivers (Spec)
StreamChunks == 3   \* deltas the provider stream delivers (SpecStream)
MaxIgnored == 1     \* frames of other types received over the channel (Spec)
MaxCalls == 3       \* RPC requests the worker receives (SpecRpc)

VARIABLES
    conversations,    \* table conversations: id -> <<>> (no row) or <<row>>
    messages,         \* table messages, in created_at order
    nextMsgId,        \* number of message ids handed out so far
    nextConvId,       \* number of conversation ids handed out so far
    abortController,  \* this.abortController: the token it currently holds
    nTokens,          \* number of AbortControllers constructed so far
    abortedTokens,    \* tokens whose abort() has been called
    inv,              \* invocation id -> locals and position of that handler
    nCmds,            \* number of create/regenerate frames received
    ignored,          \* number of frames received that match no case of the switch
    running,          \* invocation that owns the thread, 0 if none
    deleting,         \* conversation id deleteConversation is half way through, 0 if none
    out,              \* frames sent on the WebSocket, in order
    provider,         \* requests issued to the completion provider, in order
    kv,               \* env.KV: the access tokens stored under anonymous_access_token:
    calls             \* RPC requests the worker has answered, in order

vars == <<conversations, messages, nextMsgId, nextConvId, abortController, nTokens,
          abortedTokens, inv, nCmds, ignored, running, deleting, out, provider,
          kv, calls>>

Cmds == 1..MaxCmds
ConvIds == 1..MaxConvs

\* ---- input alphabets -----------------------------------------------------
UserContent == <<"u">>
TextFragments == {<<>>, <<"a">>, <<"b">>}
DerivedTitles == {<<>>, <<"T">>}
RenameTitles == {<<"R">>}

\* A tool-call fragment of a delta (ChatCompletionChunk.Choice.Delta.ToolCall).
ToolCall(i, id, ty, n, a) ==
    [index |-> i, id |-> id, type |-> ty, name |-> n, arguments |-> a]

\* Deltas the provider streams in the session specification.
SessionDeltas == {[content |-> <<"a">>, tool_calls |-> <<>>]}

\* Deltas the provider streams in the single-turn specification: text only,
\* empty, tool-call fragments with interleaved indices, and mixed.
F0open == ToolCall(0, <<"i">>, <<"f">>, <<"n">>, <<>>)
F0x == ToolCall(0, <<>>, <<>>, <<>>, <<"x">>)
F0y == ToolCall(0, <<>>, <<>>, <<>>, <<"y">>)
F0rename == ToolCall(0, <<"j">>, <<>>, <<"m">>, <<>>)
F1open == ToolCall(1, <<"j">>, <<"f">>, <<"m">>, <<"x">>)
F1y == ToolCall(1, <<>>, <<>>, <<>>, <<"y">>)
StreamDeltas ==
    [content : TextFragments, tool_calls : {<<>>}]
    \cup [content : {<<>>},
          tool_calls : {<<F0open>>, <<F0x>>, <<F0y>>, <<F0rename>>, <<F1open>>, <<F1y>>,
                        <<F0x, F1y>>}]
    \cup {[content |-> <<"b">>, tool_calls |-> <<F0open>>]}

\* ---- helpers -------------------------------------------------------------
RECURSIVE SelectSeqBy(_, _)
\* rows of table s for conversation c, order kept
SelectSeqBy(s, c) ==
    IF s = <<>> THEN <<>>
    ELSE IF Head(s).conversation_id = c
         THEN <<Head(s)>> \o SelectSeqBy(Tail(s), c)
         ELSE SelectSeqBy(Tail(s), c)

\* db.query.messages.findMany({where conversation_id = c, orderBy created_at asc})
FindMany(c) == SelectSeqBy(messages, c)

\* the {role, content} projection handed to the provider
RoleContent(s) == [i \in 1..Len(s) |-> [role |-> s[i].role, content |-> s[i].content]]

\* db.query.conversations.findFirst({where id = c})
FindFirst(c) == IF c \in ConvIds THEN conversations[c] ELSE <<>>

\* db.insert(schema.messages).values({conversation_id, role, content})
InsertMessage(c, role, content) ==
    Append(messages, [id |-> nextMsgId + 1, conversation_id |-> c,
                      role |-> role, content |-> content])

\* db.update(schema.messages).set({content}).where(id = mid)
UpdateMessageContent(mid, content) ==
    [i \in 1..Len(messages) |->
        IF messages[i].id = mid THEN [messages[i] EXCEPT !.content = content]
        ELSE messages[i]]

\* db.update(schema.conversations).set({updated_at: now}).where(id = c)
TouchConversation(c) ==
    IF c \in ConvIds /\ conversations[c] # <<>>
    THEN LET row == conversations[c][1] IN
         [conversations EXCEPT ![c] = <<[row EXCEPT !.updated_at = row.updated_at + 1]>>]
    ELSE conversations

\* db.update(schema.conversations).set({title}).where(id = c)
SetTitle(c, title) ==
    IF c \in ConvIds /\ conversations[c] # <<>>
    THEN LET row == conversations[c][1] IN
         [conversations EXCEPT ![c] = <<[row EXCEPT !.title = <<title>>]>>]
    ELSE conversations

\* ---- outbound frames -----------------------------------------------------
Frame(type, eventId, conversationId, content, function_call, title, message) ==
    [type |-> type, eventId |-> eventId, conversationId |-> conversationId,
     content |-> content, function_call |-> function_call, title |-> title,
     message |-> message]

StreamMessage(e, c, chunkContent) ==
    Frame("chat.stream.response", e, c, chunkContent, <<>>, <<>>, "")
DoneMessage(e, c, fc) == Frame("chat.stream.done", e, c, <<>>, fc, <<>>, "")
TitleMessage(e, c, t) == Frame("conversation.title.update", e, c, <<>>, <<>>, t, "")
ErrorMessage(e, msg) == Frame("error", e, 0, <<>>, <<>>, <<>>, msg)

\* a request issued to the completion provider
Request(h, kind, msgs, signal) == [by |-> h, kind |-> kind, messages |-> msgs, signal |-> signal]

\* ---- the accumulator of handleChat (toolCallMap) -------------------------
\* position of the entry for index i in the Map (insertion order), 0 if none
RECURSIVE MapPos(_, _, _)
MapPos(map, i, k) ==
    IF k > Len(map) THEN 0
    ELSE IF map[k].index = i THEN k ELSE MapPos(map, i, k + 1)

\* mutant of MergeToolCall: an existing entry takes the fragment's fields as
\* they come (name, id and type overwritten even when empty)
MergeToolCallOverwrites(map, toolCall) ==
    LET p == MapPos(map, toolCall.index, 1) IN
    IF p # 0
    THEN [map EXCEPT ![p] =
            [index     |-> @.index,
             id        |-> toolCall.id,
             type      |-> toolCall.type,
             name      |-> toolCall.name,
             arguments |-> @.arguments \o toolCall.arguments]]
    ELSE Append(map, [index |-> toolCall.index, id |-> toolCall.id, type |-> toolCall.type,
                      name |-> toolCall.name, arguments |-> toolCall.arguments])

\* one iteration of `for (const toolCall of delta.tool_calls ?? [])`
MergeToolCall(map, toolCall) ==
    LET p == MapPos(map, toolCall.index, 1) IN
    IF p # 0
    THEN [map EXCEPT ![p] =
            [index     |-> @.index,
             id        |-> IF toolCall.id # <<>> THEN toolCall.id ELSE @.id,
             type      |-> IF toolCall.type # <<>> THEN toolCall.type ELSE @.type,
             name      |-> IF toolCall.name # <<>> THEN toolCall.name ELSE @.name,
             arguments |-> IF toolCall.arguments # <<>>
                           THEN @.arguments \o toolCall.arguments ELSE @.arguments]]
    ELSE Append(map, [index |-> toolCall.index, id |-> toolCall.id, type |-> toolCall.type,
                      name |-> toolCall.name, arguments |-> toolCall.arguments])

RECURSIVE MergeToolCalls(_, _)
MergeToolCalls(map, tool_calls) ==
    IF tool_calls = <<>> THEN map
    ELSE MergeToolCalls(MergeToolCall(map, Head(tool_calls)), Tail(tool_calls))

\* the interim frame of lines 232-247: sent when the Map is non-empty and its
\* first entry has a name
InterimDone(e, c, map) ==
    IF Len(map) > 0 /\ map[1].name # <<>>
    THEN << DoneMessage(e, c, <<[name |-> map[1].name, arguments |-> map[1].arguments]>>) >>
    ELSE <<>>

\* ---- initial state -------------------------------------------------------
NoInvocation ==
    [kind |-> "none", pc |-> "idle", conversationId |-> 0, content |-> <<>>,
     conversation |-> <<>>, messages |-> <<>>, signal |-> 0, response |-> <<>>,
     toolCallMap |-> <<>>, lastAssistantMessageId |-> 0, chunks |-> 0,
     \* bookkeeping of what the invocation did
     userRow |-> 0, stored |-> <<>>, touched |-> 0, end |-> "none", fragments |-> <<>>,
     alone |-> FALSE, titleEnd |-> "none"]

\* The storage outlives the object: the constructor (lines 83-102) runs over
\* whatever an earlier activation left.  Either nothing, or one conversation
\* with a completed turn, titled or not.
StoredMessages ==
    << [id |-> 1, conversation_id |-> 1, role |-> "user", content |-> UserContent],
       [id |-> 2, conversation_id |-> 1, role |-> "assistant", content |-> <<"a">>] >>

Fresh ==
    /\ conversations = [c \in ConvIds |-> <<>>]
    /\ messages = <<>>
    /\ nextMsgId = 0
    /\ nextConvId = 0

Stored(title) ==
    /\ conversations = [c \in ConvIds |->
                          IF c = 1 THEN <<[title |-> title, pinned |-> FALSE, updated_at |-> 1]>>
                          ELSE <<>>]
    /\ messages = StoredMessages
    /\ nextMsgId = Len(StoredMessages)
    /\ nextConvId = 1

Constructed ==
    /\ abortController = 1
    /\ nTokens = 1
    /\ abortedTokens = {}
    /\ inv = [h \in Cmds |-> NoInvocation]
    /\ nCmds = 0
    /\ ignored = 0
    /\ running = 0
    /\ deleting = 0
    /\ out = <<>>
    /\ provider = <<>>

\* the worker in front of the object: no token registered, no request answered
Deployed ==
    /\ kv = {}
    /\ calls = <<>>

Init ==
    /\ Fresh \/ Stored(<<>>) \/ Stored(<< <<"T">> >>)
    /\ Constructed
    /\ Deployed

Quiet == running = 0 /\ deleting = 0

dbVars == <<conversations, messages, nextMsgId, nextConvId>>
tokenVars == <<abortController, nTokens, abortedTokens>>
frameVars == <<nCmds, ignored>>
rpcVars == <<kv, calls>>

\* ---- webSocketMessage: chat.stream.cancel (lines 125-127) ----------------
Cancel ==
    /\ Quiet
    /\ abortedTokens' = abortedTokens \cup {abortController}
    /\ UNCHANGED <<dbVars, abortController, nTokens, inv, frameVars, rpcVars, running, deleting,
                   out, provider>>

\* frame types of WebSocketClientMessage that the switch of lines 121-131 has
\* no case for, and a type outside the union
OtherFrameTypes == {"conversation.title.update", "ping"}

\* mutant of IgnoreFrame: the switch has a default branch that aborts
IgnoreFrameAborts(type) ==
    /\ Quiet
    /\ ignored < MaxIgnored
    /\ ignored' = ignored + 1
    /\ abortedTokens' = abortedTokens \cup {abortController}
    /\ UNCHANGED <<dbVars, abortController, nTokens, inv, nCmds, rpcVars, running, deleting,
                   out, provider>>

\* webSocketMessage on a frame of another type (lines 118-132): no case matches
IgnoreFrame(type) ==
    /\ Quiet
    /\ ignored < MaxIgnored
    /\ ignored' = ignored + 1
    /\ UNCHANGED <<dbVars, tokenVars, inv, nCmds, rpcVars, running, deleting, out, provider>>

\* ---- handleChat ----------------------------------------------------------
\* mutant of ChatCatch: the error is logged but no frame is sent
ChatCatchSilent(h) ==
    /\ out' = out
    /\ running' = 0

\* the outer catch of handleChat (lines 329-348): report and finish
ChatCatch(h) ==
    /\ out' = Append(out, ErrorMessage(h, "An internal error occurred"))
    /\ running' = 0

\* no other invocation is between its dispatch and its return
SessionIdle == \A g \in Cmds : inv[g].pc \in {"idle", "done"}

\* mutant of ChatBegin: the controller the object holds is kept (no line 140)
ChatBeginKeepsController(c) ==
    /\ Quiet
    /\ nCmds < MaxCmds
    /\ nCmds' = nCmds + 1
    /\ inv' = [inv EXCEPT ![nCmds + 1] =
                 [NoInvocation EXCEPT !.kind = "create", !.pc = "findConversation",
                                      !.conversationId = c, !.content = UserContent,
                                      !.alone = SessionIdle]]
    /\ nTokens' = nTokens
    /\ abortController' = abortController
    /\ running' = nCmds + 1
    /\ UNCHANGED <<dbVars, abortedTokens, ignored, rpcVars, deleting, out, provider>>

\* webSocketMessage dispatches chat.stream.create; lines 139-140
ChatBegin(c) ==
    /\ Quiet
    /\ nCmds < MaxCmds
    /\ nCmds' = nCmds + 1
    /\ inv' = [inv EXCEPT ![nCmds + 1] =
                 [NoInvocation EXCEPT !.kind = "create", !.pc = "findConversation",
                                      !.conversationId = c, !.content = UserContent,
                                      !.alone = SessionIdle]]
    /\ nTokens' = nTokens + 1
    /\ abortController' = nTokens + 1
    /\ running' = nCmds + 1
    /\ UNCHANGED <<dbVars, abortedTokens, ignored, rpcVars, deleting, out, provider>>

\* mutant of ChatFindConversation: the turn goes on when no row was found
ChatFindConversationUnchecked(h) ==
    /\ running = h
    /\ inv[h].pc = "findConversation"
    /\ inv' = [inv EXCEPT ![h].pc = "insertUser",
                           ![h].conversation = FindFirst(inv[h].conversationId)]
    /\ UNCHANGED <<out, running>>
    /\ UNCHANGED <<dbVars, tokenVars, frameVars, rpcVars, deleting, provider>>

\* lines 142-149
ChatFindConversation(h) ==
    /\ running = h
    /\ inv[h].pc = "findConversation"
    /\ LET conversation == FindFirst(inv[h].conversationId) IN
       IF conversation = <<>>
       THEN /\ inv' = [inv EXCEPT ![h].pc = "done", ![h].end = "error"]
            /\ ChatCatch(h)
       ELSE /\ inv' = [inv EXCEPT ![h].pc = "insertUser", ![h].conversation = conversation]
            /\ UNCHANGED <<out, running>>
    /\ UNCHANGED <<dbVars, tokenVars, frameVars, rpcVars, deleting, provider>>

\* mutant of ChatInsertUser: the insert of lines 150-155 is skipped
ChatInsertUserSkipped(h) ==
    /\ running = h
    /\ inv[h].pc = "insertUser"
    /\ inv' = [inv EXCEPT ![h].pc = "createStream"]
    /\ UNCHANGED <<dbVars, tokenVars, frameVars, rpcVars, running, deleting, out, provider>>

\* lines 150-155
ChatInsertUser(h) ==
    /\ running = h
    /\ inv[h].pc = "insertUser"
    /\ messages' = InsertMessage(inv[h].conversationId, "user", inv[h].content)
    /\ nextMsgId' = nextMsgId + 1
    /\ inv' = [inv EXCEPT ![h].pc = "createStream", ![h].userRow = nextMsgId + 1]
    /\ UNCHANGED <<conversations, nextConvId, tokenVars, frameVars, rpcVars, running, deleting,
                   out, provider>>

\* lines 156-180: read the history, issue the completion request with the
\* signal of the controller the object holds now, and await the response
ChatCreateStream(h) ==
    /\ running = h
    /\ inv[h].pc = "createStream"
    /\ LET msgs == RoleContent(FindMany(inv[h].conversationId)) IN
       /\ inv' = [inv EXCEPT ![h].pc = "awaitStream", ![h].messages = msgs,
                              ![h].signal = abortController]
       /\ provider' = Append(provider, Request(h, "chat", msgs, abortController))
    /\ running' = 0
    /\ UNCHANGED <<dbVars, tokenVars, frameVars, rpcVars, deleting, out>>

\* the request of line 168 resolves with a stream
ChatStreamOpened(h) ==
    /\ Quiet
    /\ inv[h].kind = "create"
    /\ inv[h].pc = "awaitStream"
    /\ inv' = [inv EXCEPT ![h].pc = "stream"]
    /\ UNCHANGED <<dbVars, tokenVars, frameVars, rpcVars, running, deleting, out, provider>>

\* the request of line 168 rejects because its signal was aborted: the await
\* is outside the inner try, so the outer catch takes it
ChatCreateAborted(h) ==
    /\ Quiet
    /\ inv[h].kind = "create"
    /\ inv[h].pc = "awaitStream"
    /\ inv[h].signal \in abortedTokens
    /\ inv' = [inv EXCEPT ![h].pc = "done", ![h].end = "aborted"]
    /\ ChatCatch(h)
    /\ UNCHANGED <<dbVars, tokenVars, frameVars, rpcVars, deleting, provider>>

\* the request of line 168 rejects with a provider fault
ChatCreateFailed(h) ==
    /\ Quiet
    /\ inv[h].kind = "create"
    /\ inv[h].pc = "awaitStream"
    /\ inv' = [inv EXCEPT ![h].pc = "done", ![h].end = "error"]
    /\ ChatCatch(h)
    /\ UNCHANGED <<dbVars, tokenVars, frameVars, rpcVars, deleting, provider>>

\* mutant of ChatChunk: the fragment is sent but put in front of the response
ChatChunkPrepends(h, delta) ==
    /\ Quiet
    /\ inv[h].kind = "create"
    /\ inv[h].pc = "stream"
    /\ LET e == h
           c == inv[h].conversationId
           chunkContent == delta.content
           map == MergeToolCalls(inv[h].toolCallMap, delta.tool_calls)
       IN
       /\ inv' = [inv EXCEPT ![h].chunks = @ + 1,
                              ![h].response = chunkContent \o @,
                              ![h].toolCallMap = map,
                              ![h].fragments = @ \o delta.tool_calls]
       /\ out' = out \o (IF chunkContent # <<>> THEN <<StreamMessage(e, c, chunkContent)>>
                                                ELSE <<>>)
                     \o InterimDone(e, c, map)
    /\ UNCHANGED <<dbVars, tokenVars, frameVars, rpcVars, running, deleting, provider>>

\* lines 187-248: one iteration of the for-await loop on delta
ChatChunk(h, delta) ==
    /\ Quiet
    /\ inv[h].kind = "create"
    /\ inv[h].pc = "stream"
    /\ LET e == h
           c == inv[h].conversationId
           chunkContent == delta.content
           map == MergeToolCalls(inv[h].toolCallMap, delta.tool_calls)
       IN
       /\ inv' = [inv EXCEPT ![h].chunks = @ + 1,
                              ![h].response = @ \o chunkContent,
                              ![h].toolCallMap = map,
                              ![h].fragments = @ \o delta.tool_calls]
       /\ out' = out \o (IF chunkContent # <<>> THEN <<StreamMessage(e, c, chunkContent)>>
                                                ELSE <<>>)
                     \o InterimDone(e, c, map)
    /\ UNCHANGED <<dbVars, tokenVars, frameVars, rpcVars, running, deleting, provider>>

\* the stream ends: the loop of line 187 exits normally
ChatStreamEnd(h) ==
    /\ Quiet
    /\ inv[h].kind = "create"
    /\ inv[h].pc = "stream"
    /\ inv' = [inv EXCEPT ![h].pc = "sendDone", ![h].end = "natural"]
    /\ running' = h
    /\ UNCHANGED <<dbVars, tokenVars, frameVars, rpcVars, deleting, out, provider>>

\* the stream raises AbortError (its signal was aborted): lines 249-251
ChatStreamAborted(h) ==
    /\ Quiet
    /\ inv[h].kind = "create"
    /\ inv[h].pc = "stream"
    /\ inv[h].signal \in abortedTokens
    /\ inv' = [inv EXCEPT ![h].pc = "sendDone", ![h].end = "aborted"]
    /\ running' = h
    /\ UNCHANGED <<dbVars, tokenVars, frameVars, rpcVars, deleting, out, provider>>

\* the stream raises another error: lines 252-258 rethrow, the outer catch reports
ChatStreamFailed(h) ==
    /\ Quiet
    /\ inv[h].kind = "create"
    /\ inv[h].pc = "stream"
    /\ inv' = [inv EXCEPT ![h].pc = "done", ![h].end = "error"]
    /\ ChatCatch(h)
    /\ UNCHANGED <<dbVars, tokenVars, frameVars, rpcVars, deleting, provider>>

\* lines 260-266
ChatSendDone(h) ==
    /\ running = h
    /\ inv[h].kind = "create"
    /\ inv[h].pc = "sendDone"
    /\ out' = Append(out, DoneMessage(h, inv[h].conversationId, <<>>))
    /\ inv' = [inv EXCEPT ![h].pc = "insertAssistant"]
    /\ UNCHANGED <<dbVars, tokenVars, frameVars, rpcVars, running, deleting, provider>>

\* lines 267-272
ChatInsertAssistant(h) ==
    /\ running = h
    /\ inv[h].pc = "insertAssistant"
    /\ messages' = InsertMessage(inv[h].conversationId, "assistant", inv[h].response)
    /\ nextMsgId' = nextMsgId + 1
    /\ inv' = [inv EXCEPT ![h].pc = "touch", ![h].stored = Append(@, inv[h].response)]
    /\ UNCHANGED <<conversations, nextConvId, tokenVars, frameVars, rpcVars, running, deleting,
                   out, provider>>

\* mutant of TitleWanted: the title is read again when the turn has ended
TitleWantedNow(h) ==
    /\ FindFirst(inv[h].conversationId) # <<>>
    /\ FindFirst(inv[h].conversationId)[1].title = <<>>

\* mutant of TitleWanted: the test of line 279 is dropped
TitleWantedAlways(h) == TRUE

\* the title request of lines 280-300 is issued iff the row read at line 142
\* had a NULL title (line 279)
TitleWanted(h) == inv[h].conversation[1].title = <<>>

\* mutant of ChatTouch: the thread is held until the title request returns
ChatTouchBlocks(h) ==
    /\ running = h
    /\ inv[h].kind = "create"
    /\ inv[h].pc = "touch"
    /\ conversations' = TouchConversation(inv[h].conversationId)
    /\ IF TitleWanted(h)
       THEN /\ inv' = [inv EXCEPT ![h].pc = "awaitTitle", ![h].touched = @ + 1]
            /\ provider' = Append(provider,
                   Request(h, "title",
                           Append(inv[h].messages,
                                  [role |-> "assistant", content |-> inv[h].response]),
                           0))
            /\ running' = h
       ELSE /\ inv' = [inv EXCEPT ![h].pc = "done", ![h].touched = @ + 1]
            /\ UNCHANGED provider
            /\ running' = 0
    /\ UNCHANGED <<messages, nextMsgId, nextConvId, tokenVars, frameVars, rpcVars, deleting, out>>

\* lines 273-300: bump updated_at, then either finish or issue the title request
ChatTouch(h) ==
    /\ running = h
    /\ inv[h].kind = "create"
    /\ inv[h].pc = "touch"
    /\ conversations' = TouchConversation(inv[h].conversationId)
    /\ IF TitleWanted(h)
       THEN /\ inv' = [inv EXCEPT ![h].pc = "awaitTitle", ![h].touched = @ + 1]
            /\ provider' = Append(provider,
                   Request(h, "title",
                           Append(inv[h].messages,
                                  [role |-> "assistant", content |-> inv[h].response]),
                           0))
       ELSE /\ inv' = [inv EXCEPT ![h].pc = "done", ![h].touched = @ + 1]
            /\ UNCHANGED provider
    /\ running' = 0
    /\ UNCHANGED <<messages, nextMsgId, nextConvId, tokenVars, frameVars, rpcVars, deleting, out>>

\* lines 301-321: the title request resolves with a well-formed {title}
ChatTitleParsed(h, title) ==
    /\ Quiet
    /\ inv[h].pc = "awaitTitle"
    /\ inv' = [inv EXCEPT ![h].pc = "done",
                           ![h].titleEnd = IF title # <<>> THEN "set" ELSE "kept"]
    /\ IF title # <<>>
       THEN /\ conversations' = SetTitle(inv[h].conversationId, title)
            /\ out' = Append(out, TitleMessage(h, inv[h].conversationId, title))
       ELSE UNCHANGED <<conversations, out>>
    /\ UNCHANGED <<messages, nextMsgId, nextConvId, tokenVars, frameVars, rpcVars, running, deleting,
                   provider>>

\* mutant of ChatTitleFailed: the fault reaches the outer catch
ChatTitleFailedReports(h) ==
    /\ Quiet
    /\ inv[h].pc = "awaitTitle"
    /\ inv' = [inv EXCEPT ![h].pc = "done", ![h].titleEnd = "kept"]
    /\ ChatCatch(h)
    /\ UNCHANGED <<dbVars, tokenVars, frameVars, rpcVars, deleting, provider>>

\* lines 322-327: the title request rejects, or its output does not parse
ChatTitleFailed(h) ==
    /\ Quiet
    /\ inv[h].pc = "awaitTitle"
    /\ inv' = [inv EXCEPT ![h].pc = "done", ![h].titleEnd = "kept"]
    /\ UNCHANGED <<dbVars, tokenVars, frameVars, rpcVars, running, deleting, out, provider>>

\* ---- handleRegenerate ----------------------------------------------------
\* the outer catch of handleRegenerate (lines 463-484): report and finish
RegenCatch(h) ==
    /\ out' = Append(out, ErrorMessage(h, "An internal error occurred during regeneration."))
    /\ running' = 0

\* webSocketMessage dispatches chat.regenerate; lines 355-356
RegenBegin(c) ==
    /\ Quiet
    /\ nCmds < MaxCmds
    /\ nCmds' = nCmds + 1
    /\ inv' = [inv EXCEPT ![nCmds + 1] =
                 [NoInvocation EXCEPT !.kind = "regen", !.pc = "query",
                                      !.conversationId = c, !.alone = SessionIdle]]
    /\ nTokens' = nTokens + 1
    /\ abortController' = nTokens + 1
    /\ running' = nCmds + 1
    /\ UNCHANGED <<dbVars, abortedTokens, ignored, rpcVars, deleting, out, provider>>

\* mutant of CannotRegenerate: only the length is tested
CannotRegenerateLengthOnly(allMessages) == Len(allMessages) < 2

\* the test of lines 373-376 on the rows read at line 359
CannotRegenerate(allMessages) ==
    \/ Len(allMessages) < 2
    \/ allMessages[Len(allMessages)].role # "assistant"

\* lines 359-412: read the history; reject, or drop the last assistant message
\* from the working history and issue the completion request
RegenQuery(h) ==
    /\ running = h
    /\ inv[h].pc = "query"
    /\ LET allMessages == FindMany(inv[h].conversationId) IN
       IF CannotRegenerate(allMessages)
       THEN /\ out' = Append(out, ErrorMessage(h, "Cannot regenerate the last message."))
            /\ inv' = [inv EXCEPT ![h].pc = "done", ![h].end = "rejected"]
            /\ UNCHANGED provider
       ELSE LET lastAssistantMessage == allMessages[Len(allMessages)]
                messagesForRegeneration ==
                    RoleContent(SubSeq(allMessages, 1, Len(allMessages) - 1))
            IN
            /\ inv' = [inv EXCEPT ![h].pc = "awaitStream",
                                   ![h].lastAssistantMessageId = lastAssistantMessage.id,
                                   ![h].messages = messagesForRegeneration,
                                   ![h].signal = abortController]
            /\ provider' = Append(provider,
                   Request(h, "regen", messagesForRegeneration, abortController))
            /\ UNCHANGED out
    /\ running' = 0
    /\ UNCHANGED <<dbVars, tokenVars, frameVars, rpcVars, deleting>>

\* the request of line 397 resolves with a stream
RegenStreamOpened(h) ==
    /\ Quiet
    /\ inv[h].kind = "regen"
    /\ inv[h].pc = "awaitStream"
    /\ inv' = [inv EXCEPT ![h].pc = "stream"]
    /\ UNCHANGED <<dbVars, tokenVars, frameVars, rpcVars, running, deleting, out, provider>>

\* the request of line 397 rejects because its signal was aborted
RegenCreateAborted(h) ==
    /\ Quiet
    /\ inv[h].kind = "regen"
    /\ inv[h].pc = "awaitStream"
    /\ inv[h].signal \in abortedTokens
    /\ inv' = [inv EXCEPT ![h].pc = "done", ![h].end = "aborted"]
    /\ RegenCatch(h)
    /\ UNCHANGED <<dbVars, tokenVars, frameVars, rpcVars, deleting, provider>>

\* the request of line 397 rejects with a provider fault
RegenCreateFailed(h) ==
    /\ Quiet
    /\ inv[h].kind = "regen"
    /\ inv[h].pc = "awaitStream"
    /\ inv' = [inv EXCEPT ![h].pc = "done", ![h].end = "error"]
    /\ RegenCatch(h)
    /\ UNCHANGED <<dbVars, tokenVars, frameVars, rpcVars, deleting, provider>>

\* lines 416-428: one iteration of the for-await loop (tool calls are not read)
RegenChunk(h, delta) ==
    /\ Quiet
    /\ inv[h].kind = "regen"
    /\ inv[h].pc = "stream"
    /\ LET chunkContent == delta.content IN
       /\ inv' = [inv EXCEPT ![h].chunks = @ + 1, ![h].response = @ \o chunkContent]
       /\ out' = out \o (IF chunkContent # <<>>
                          THEN <<StreamMessage(h, inv[h].conversationId, chunkContent)>>
                          ELSE <<>>)
    /\ UNCHANGED <<dbVars, tokenVars, frameVars, rpcVars, running, deleting, provider>>

\* the stream ends: the loop of line 416 exits normally
RegenStreamEnd(h) ==
    /\ Quiet
    /\ inv[h].kind = "regen"
    /\ inv[h].pc = "stream"
    /\ inv' = [inv EXCEPT ![h].pc = "sendDone", ![h].end = "natural"]
    /\ running' = h
    /\ UNCHANGED <<dbVars, tokenVars, frameVars, rpcVars, deleting, out, provider>>

\* mutant of RegenStreamAborted: AbortError falls through to the persistence
\* of lines 444-462, as it does in handleChat
RegenStreamAbortedPersists(h) ==
    /\ Quiet
    /\ inv[h].kind = "regen"
    /\ inv[h].pc = "stream"
    /\ inv[h].signal \in abortedTokens
    /\ inv' = [inv EXCEPT ![h].pc = "sendDone", ![h].end = "aborted"]
    /\ running' = h
    /\ UNCHANGED <<dbVars, tokenVars, frameVars, rpcVars, deleting, out, provider>>

\* the stream raises AbortError: lines 429-434 return
RegenStreamAborted(h) ==
    /\ Quiet
    /\ inv[h].kind = "regen"
    /\ inv[h].pc = "stream"
    /\ inv[h].signal \in abortedTokens
    /\ inv' = [inv EXCEPT ![h].pc = "done", ![h].end = "aborted"]
    /\ UNCHANGED <<dbVars, tokenVars, frameVars, rpcVars, running, deleting, out, provider>>

\* the stream raises another error: lines 435-441 rethrow, the outer catch reports
RegenStreamFailed(h) ==
    /\ Quiet
    /\ inv[h].kind = "regen"
    /\ inv[h].pc = "stream"
    /\ inv' = [inv EXCEPT ![h].pc = "done", ![h].end = "error"]
    /\ RegenCatch(h)
    /\ UNCHANGED <<dbVars, tokenVars, frameVars, rpcVars, deleting, provider>>

\* lines 444-450
RegenSendDone(h) ==
    /\ running = h
    /\ inv[h].kind = "regen"
    /\ inv[h].pc = "sendDone"
    /\ out' = Append(out, DoneMessage(h, inv[h].conversationId, <<>>))
    /\ inv' = [inv EXCEPT ![h].pc = "updateAssistant"]
    /\ UNCHANGED <<dbVars, tokenVars, frameVars, rpcVars, running, deleting, provider>>

\* mutant of RegenUpdateAssistant: the new text is inserted as a further row
RegenUpdateAssistantInserts(h) ==
    /\ running = h
    /\ inv[h].pc = "updateAssistant"
    /\ messages' = Append(messages, [id |-> nextMsgId + 1,
                                     conversation_id |-> inv[h].conversationId,
                                     role |-> "assistant", content |-> inv[h].response])
    /\ inv' = [inv EXCEPT ![h].pc = "touch", ![h].stored = Append(@, inv[h].response)]
    /\ UNCHANGED <<conversations, nextMsgId, nextConvId, tokenVars, frameVars, rpcVars, running,
                   deleting, out, provider>>

\* lines 452-457
RegenUpdateAssistant(h) ==
    /\ running = h
    /\ inv[h].pc = "updateAssistant"
    /\ messages' = UpdateMessageContent(inv[h].lastAssistantMessageId, inv[h].response)
    /\ inv' = [inv EXCEPT ![h].pc = "touch", ![h].stored = Append(@, inv[h].response)]
    /\ UNCHANGED <<conversations, nextMsgId, nextConvId, tokenVars, frameVars, rpcVars, running,
                   deleting, out, provider>>

\* lines 459-462
RegenTouch(h) ==
    /\ running = h
    /\ inv[h].kind = "regen"
    /\ inv[h].pc = "touch"
    /\ conversations' = TouchConversation(inv[h].conversationId)
    /\ inv' = [inv EXCEPT ![h].pc = "done", ![h].touched = @ + 1]
    /\ running' = 0
    /\ UNCHANGED <<messages, nextMsgId, nextConvId, tokenVars, frameVars, rpcVars, deleting, out,
                   provider>>

\* ---- conversation RPCs ---------------------------------------------------
\* createConversation (lines 498-506): a row with a fresh id and a NULL title
CreateConversation ==
    /\ Quiet
    /\ nextConvId < MaxConvs
    /\ nextConvId' = nextConvId + 1
    /\ conversations' = [conversations EXCEPT ![nextConvId + 1] =
                            <<[title |-> <<>>, pinned |-> FALSE, updated_at |-> 0]>>]
    /\ UNCHANGED <<messages, nextMsgId, tokenVars, inv, frameVars, rpcVars, running, deleting, out,
                   provider>>

\* deleteConversation, lines 509-511: the conversation row goes first
DeleteConversationRow(c) ==
    /\ Quiet
    /\ c <= nextConvId
    /\ conversations' = [conversations EXCEPT ![c] = <<>>]
    /\ deleting' = c
    /\ UNCHANGED <<messages, nextMsgId, nextConvId, tokenVars, inv, frameVars, rpcVars, running, out,
                   provider>>

\* deleteConversation, lines 512-514: then its messages
DeleteConversationMessages ==
    /\ deleting # 0
    /\ messages' = SelectSeq(messages, LAMBDA m : m.conversation_id # deleting)
    /\ deleting' = 0
    /\ UNCHANGED <<conversations, nextMsgId, nextConvId, tokenVars, inv, frameVars, rpcVars, running,
                   out, provider>>

\* renameConversation (lines 517-522)
RenameConversation(c, title) ==
    /\ Quiet
    /\ c <= nextConvId
    /\ conversations' = SetTitle(c, title)
    /\ UNCHANGED <<messages, nextMsgId, nextConvId, tokenVars, inv, frameVars, rpcVars, running,
                   deleting, out, provider>>

\* ---- the session specification -------------------------------------------
Next ==
    \/ Cancel
    \/ \E type \in OtherFrameTypes : IgnoreFrame(type)
    \/ CreateConversation
    \/ \E c \in ConvIds : DeleteConversationRow(c)
    \/ DeleteConversationMessages
    \/ \E c \in ConvIds, t \in RenameTitles : RenameConversation(c, t)
    \/ \E c \in ConvIds : ChatBegin(c)
    \/ \E h \in Cmds : ChatFindConversation(h)
    \/ \E h \in Cmds : ChatInsertUser(h)
    \/ \E h \in Cmds : ChatCreateStream(h)
    \/ \E h \in Cmds : ChatStreamOpened(h)
    \/ \E h \in Cmds : ChatCreateAborted(h)
    \/ \E h \in Cmds : ChatCreateFailed(h)
    \/ \E h \in Cmds, d \in SessionDeltas : inv[h].chunks < SessionChunks /\ ChatChunk(h, d)
    \/ \E h \in Cmds : ChatStreamEnd(h)
    \/ \E h \in Cmds : ChatStreamAborted(h)
    \/ \E h \in Cmds : ChatStreamFailed(h)
    \/ \E h \in Cmds : ChatSendDone(h)
    \/ \E h \in Cmds : ChatInsertAssistant(h)
    \/ \E h \in Cmds : ChatTouch(h)
    \/ \E h \in Cmds, t \in DerivedTitles : ChatTitleParsed(h, t)
    \/ \E h \in Cmds : ChatTitleFailed(h)
    \/ \E c \in ConvIds : RegenBegin(c)
    \/ \E h \in Cmds : RegenQuery(h)
    \/ \E h \in Cmds : RegenStreamOpened(h)
    \/ \E h \in Cmds : RegenCreateAborted(h)
    \/ \E h \in Cmds : RegenCreateFailed(h)
    \/ \E h \in Cmds, d \in SessionDeltas : inv[h].chunks < SessionChunks /\ RegenChunk(h, d)
    \/ \E h \in Cmds : RegenStreamEnd(h)
    \/ \E h \in Cmds : RegenStreamAborted(h)
    \/ \E h \in Cmds : RegenStreamFailed(h)
    \/ \E h \in Cmds : RegenSendDone(h)
    \/ \E h \in Cmds : RegenUpdateAssistant(h)
    \/ \E h \in Cmds : RegenTouch(h)

Spec == Init /\ [][Next]_vars

\* ---- the single-turn specification ---------------------------------------
\* One create or regenerate turn over a stored conversation, with the full
\* alphabet of deltas: what the stream consumer and the accumulator do with
\* every sequence of up to StreamChunks deltas.
InitStream ==
    /\ Stored(<<>>) \/ Stored(<< <<"T">> >>)
    /\ Constructed
    /\ Deployed

NextStream ==
    \/ Cancel
    \/ \E c \in ConvIds : nCmds = 0 /\ ChatBegin(c)
    \/ \E h \in Cmds : ChatFindConversation(h)
    \/ \E h \in Cmds : ChatInsertUser(h)
    \/ \E h \in Cmds : ChatCreateStream(h)
    \/ \E h \in Cmds : ChatStreamOpened(h)
    \/ \E h \in Cmds : ChatCreateAborted(h)
    \/ \E h \in Cmds : ChatCreateFailed(h)
    \/ \E h \in Cmds, d \in StreamDeltas : inv[h].chunks < StreamChunks /\ ChatChunk(h, d)
    \/ \E h \in Cmds : ChatStreamEnd(h)
    \/ \E h \in Cmds : ChatStreamAborted(h)
    \/ \E h \in Cmds : ChatStreamFailed(h)
    \/ \E h \in Cmds : ChatSendDone(h)
    \/ \E h \in Cmds : ChatInsertAssistant(h)
    \/ \E h \in Cmds : ChatTouch(h)
    \/ \E h \in Cmds, t \in DerivedTitles : ChatTitleParsed(h, t)
    \/ \E h \in Cmds : ChatTitleFailed(h)
    \/ \E c \in ConvIds : nCmds = 0 /\ RegenBegin(c)
    \/ \E h \in Cmds : RegenQuery(h)
    \/ \E h \in Cmds : RegenStreamOpened(h)
    \/ \E h \in Cmds : RegenCreateAborted(h)
    \/ \E h \in Cmds : RegenCreateFailed(h)
    \/ \E h \in Cmds, d \in StreamDeltas : inv[h].chunks < StreamChunks /\ RegenChunk(h, d)
    \/ \E h \in Cmds : RegenStreamEnd(h)
    \/ \E h \in Cmds : RegenStreamAborted(h)
    \/ \E h \in Cmds : RegenStreamFailed(h)
    \/ \E h \in Cmds : RegenSendDone(h)
    \/ \E h \in Cmds : RegenUpdateAssistant(h)
    \/ \E h \in Cmds : RegenTouch(h)

SpecStream == InitStream /\ [][NextStream]_vars

\* ---- the RPC worker in front of the object (connect.ts) -------------------
\* Access tokens and header values are opaque, so they are kept as strings; a
\* header is a sequence of length at most one (<<>> is a missing header).
PUBLIC_ROUTES == {"anonymousRegister"}

\* handlers behind the interceptor that write nothing (they list or read)
ProtectedMethods == {"listModels", "listConversations", "listMessages"}

\* values crypto.randomUUID() returns at line 244
AccessTokens == {"t1", "t2"}

\* req.header.get("authorization"): missing, empty, a token that
\* anonymousRegister may hand out, or a value it never hands out
Authorizations == {<<>>, <<"">>} \cup {<<t>> : t \in AccessTokens \cup {"x"}}

objectVars == <<dbVars, tokenVars, frameVars, inv, running, deleting, out, provider>>

\* `if (accessToken)` of line 44: neither null nor the empty string
Truthy(header) == header # <<>> /\ header[1] # ""

\* anonymousInterceptor (lines 39-58): "next" when it calls next(req).  The
\* user context of line 50 is always there (contextValues, lines 69-73).
AnonymousInterceptor(method, authorization) ==
    IF method \in PUBLIC_ROUTES THEN "next"
    ELSE IF Truthy(authorization) /\ authorization[1] \notin kv THEN "Unauthenticated"
    ELSE "next"

Call(method, authorization, reached, code) ==
    [method |-> method, authorization |-> authorization, reached |-> reached, code |-> code]

\* a request for anonymousRegister: the interceptor passes it on, the handler
\* (lines 243-254) stores the new token unless the key exists
AnonymousRegisterCall(authorization, accessToken) ==
    /\ Len(calls) < MaxCalls
    /\ AnonymousInterceptor("anonymousRegister", authorization) = "next"
    /\ IF accessToken \in kv
       THEN /\ calls' = Append(calls, Call("anonymousRegister", authorization, TRUE,
                                           "Unauthenticated"))
            /\ kv' = kv
       ELSE /\ calls' = Append(calls, Call("anonymousRegister", authorization, TRUE, "ok"))
            /\ kv' = kv \cup {accessToken}
    /\ UNCHANGED objectVars

\* a request for another method: the handler runs iff the interceptor calls next
ProtectedCall(method, authorization) ==
    /\ Len(calls) < MaxCalls
    /\ IF AnonymousInterceptor(method, authorization) = "next"
       THEN calls' = Append(calls, Call(method, authorization, TRUE, "ok"))
       ELSE calls' = Append(calls, Call(method, authorization, FALSE, "Unauthenticated"))
    /\ kv' = kv
    /\ UNCHANGED objectVars

InitRpc ==
    /\ Fresh
    /\ Constructed
    /\ Deployed

NextRpc ==
    \/ \E a \in Authorizations, t \in AccessTokens : AnonymousRegisterCall(a, t)
    \/ \E m \in ProtectedMethods, a \in Authorizations : ProtectedCall(m, a)

SpecRpc == InitRpc /\ [][NextRpc]_vars

\* ---- vocabulary of the properties ----------------------------------------
\* frames of one type sent for the command with correlation id h, in order
FramesOf(h, type) == SelectSeq(out, LAMBDA f : f.eventId = h /\ f.type = type)

\* turn-complete frames of h that carry no action
PlainDone(h) == SelectSeq(FramesOf(h, "chat.stream.done"), LAMBDA f : f.function_call = <<>>)

\* requests of one kind that invocation h issued to the provider
RequestsOf(h, kind) == SelectSeq(provider, LAMBDA r : r.by = h /\ r.kind = kind)

\* the handler of h has returned, or only its title request is outstanding
TurnOver(h) == inv[h].pc \in {"done", "awaitTitle"}

\* the completion stream of h is outstanding: requested, not ended, not canceled
Outstanding(h) ==
    /\ inv[h].pc \in {"awaitStream", "stream"}
    /\ inv[h].signal \notin abortedTokens

\* C1: whenever a completion request has been issued for a create command, the
\* user message of that command has already been inserted, and it is the last
\* message of the history the request carries.
C1_UserPersistedBeforeProviderCall ==
    \A i \in 1..Len(provider) :
        provider[i].kind = "chat" =>
            LET h == provider[i].by
                msgs == provider[i].messages
            IN /\ inv[h].userRow # 0
               /\ Len(msgs) > 0
               /\ msgs[Len(msgs)] = [role |-> "user", content |-> inv[h].content]

C1_Witness ==
    \E h \in Cmds :
        /\ inv[h].kind = "create"
        /\ inv[h].pc = "awaitStream"
        /\ Len(RequestsOf(h, "chat")) = 1
        /\ \E i \in 1..Len(messages) : messages[i].id = inv[h].userRow

\* C2: whenever a turn-complete frame has been sent for a turn, the assistant
\* text of that turn is already in the store.
C2_PersistedBeforeDone ==
    \A h \in Cmds :
        Len(FramesOf(h, "chat.stream.done")) > 0 => Len(inv[h].stored) > 0

\* C3: at most one completion stream is outstanding (requested, not ended, not
\* canceled) at any time.
C3_AtMostOneOutstanding ==
    Cardinality({h \in Cmds : Outstanding(h)}) <= 1

\* C4: a create turn whose provider call ended in the cancellation outcome has
\* stored exactly one assistant message holding the text accumulated so far,
\* sent exactly one turn-complete frame without action, and sent no error frame.
C4_CanceledCreatePersists ==
    \A h \in Cmds :
        (inv[h].kind = "create" /\ inv[h].end = "aborted" /\ TurnOver(h)) =>
            /\ inv[h].stored = <<inv[h].response>>
            /\ Len(PlainDone(h)) = 1
            /\ Len(FramesOf(h, "error")) = 0

\* C5: a regenerate whose provider call ended in the cancellation outcome has
\* returned without writing a message, without bumping updated_at and without
\* sending a turn-complete frame.
C5_CanceledRegenWritesNothing ==
    \A h \in Cmds :
        (inv[h].kind = "regen" /\ inv[h].end = "aborted") =>
            /\ inv[h].pc = "done"
            /\ inv[h].stored = <<>>
            /\ inv[h].touched = 0
            /\ Len(FramesOf(h, "chat.stream.done")) = 0

C5_Witness ==
    \E h \in Cmds :
        /\ inv[h].kind = "regen"
        /\ inv[h].end = "aborted"
        /\ inv[h].response # <<>>
        /\ \E i \in 1..Len(messages) :
              /\ messages[i].id = inv[h].lastAssistantMessageId
              /\ messages[i].content # inv[h].response

\* C6: a regenerate that finds fewer than two messages, or a last message of
\* role user, sends the rejection frame, issues no provider request, leaves
\* both tables as they are, and returns.
C6_RegenRejected ==
    [][\A h \in Cmds :
         LET all == FindMany(inv[h].conversationId) IN
         (/\ inv[h].kind = "regen"
          /\ inv[h].pc = "query"
          /\ inv'[h].pc # "query"
          /\ (Len(all) < 2 \/ all[Len(all)].role = "user"))
         => /\ out' = Append(out, ErrorMessage(h, "Cannot regenerate the last message."))
            /\ provider' = provider
            /\ messages' = messages
            /\ conversations' = conversations
            /\ inv'[h].pc = "done"]_vars

C6_Witness ==
    \E h \in Cmds :
        LET all == FindMany(inv[h].conversationId) IN
        /\ inv[h].kind = "regen"
        /\ inv[h].end = "rejected"
        /\ Len(all) >= 2
        /\ all[Len(all)].role = "user"
        /\ Len(RequestsOf(h, "regen")) = 0

RECURSIVE ConcatContent(_)
\* the text fragments of a sequence of frames, joined in order
ConcatContent(frames) ==
    IF frames = <<>> THEN <<>>
    ELSE Head(frames).content \o ConcatContent(Tail(frames))

\* C7: once a turn has written its assistant text, the incremental-text frames
\* sent for that turn, joined in the order sent, are exactly the text written.
C7_ChannelEqualsPersisted ==
    \A h \in Cmds :
        Len(inv[h].stored) > 0 =>
            ConcatContent(FramesOf(h, "chat.stream.response")) = inv[h].stored[1]

C7_Witness ==
    \E h \in Cmds :
        /\ inv[h].kind = "create"
        /\ inv[h].stored = << <<"a", "b">> >>
        /\ Len(FramesOf(h, "chat.stream.response")) = 2

RECURSIVE ArgumentsFor(_, _)
\* the argument fragments addressed to index i, joined in arrival order
ArgumentsFor(frags, i) ==
    IF frags = <<>> THEN <<>>
    ELSE (IF Head(frags).index = i THEN Head(frags).arguments ELSE <<>>)
         \o ArgumentsFor(Tail(frags), i)

RECURSIVE LastSupplied(_, _, _)
\* the last non-empty value of a field supplied for index i, <<>> if none;
\* the fragments are scanned from the last one backwards
LastSupplied(frags, i, field) ==
    IF frags = <<>> THEN <<>>
    ELSE LET last == frags[Len(frags)] IN
         IF last.index = i /\ last[field] # <<>> THEN last[field]
         ELSE LastSupplied(SubSeq(frags, 1, Len(frags) - 1), i, field)

IndicesOf(frags) == {frags[k].index : k \in 1..Len(frags)}

\* C8: the accumulator holds one entry per index that received a fragment; its
\* arguments are the argument fragments for that index joined in arrival order,
\* and its name, id and type are the last non-empty values supplied for it.
C8_AccumulatorExact ==
    \A h \in Cmds :
        LET frags == inv[h].fragments
            map == inv[h].toolCallMap
        IN /\ {map[k].index : k \in 1..Len(map)} = IndicesOf(frags)
           /\ Len(map) = Cardinality(IndicesOf(frags))
           /\ \A k \in 1..Len(map) :
                 /\ map[k].arguments = ArgumentsFor(frags, map[k].index)
                 /\ map[k].name = LastSupplied(frags, map[k].index, "name")
                 /\ map[k].id = LastSupplied(frags, map[k].index, "id")
                 /\ map[k].type = LastSupplied(frags, map[k].index, "type")

C8_Witness ==
    \E h \in Cmds :
        /\ TurnOver(h)
        /\ inv[h].end = "natural"
        /\ inv[h].fragments = <<F0open, F0x, F1y, F0rename>>
        /\ inv[h].toolCallMap[1] = ToolCall(0, <<"j">>, <<"f">>, <<"m">>, <<"x">>)

\* C9: the frame a create turn sends when its stream has ended carries the
\* first accumulated entry's name and arguments if any entry was accumulated,
\* and no action otherwise.
C9_FinalDoneCarriesAction ==
    \A h \in Cmds :
        (inv[h].kind = "create" /\ TurnOver(h) /\ inv[h].end \in {"natural", "aborted"}
         /\ Len(FramesOf(h, "chat.stream.done")) > 0) =>
            LET done == FramesOf(h, "chat.stream.done")
                map == inv[h].toolCallMap
            IN done[Len(done)].function_call =
                 (IF Len(map) > 0
                  THEN <<[name |-> map[1].name, arguments |-> map[1].arguments]>>
                  ELSE <<>>)

\* C10 as claimed, for create turns that follow one another: a create turn
\* that begins when every earlier turn on the conversation has returned issues
\* no title request if an earlier turn issued one.
C10_OncePerConversation ==
    \A h1, h2 \in Cmds :
        (/\ h1 < h2
         /\ inv[h2].alone
         /\ inv[h1].conversationId = inv[h2].conversationId
         /\ Len(RequestsOf(h1, "title")) > 0)
        => Len(RequestsOf(h2, "title")) = 0

\* C10 amended: a turn issues at most one title request, only a create turn
\* does, and only if the conversation row it read at its start had no title.
C10_OncePerTurnWhenUnset ==
    \A h \in Cmds :
        /\ Len(RequestsOf(h, "title")) <= 1
        /\ Len(RequestsOf(h, "title")) = 1 =>
              /\ inv[h].kind = "create"
              /\ inv[h].conversation # <<>>
              /\ inv[h].conversation[1].title = <<>>

C10_Witness ==
    \E h1, h2 \in Cmds :
        /\ h1 < h2
        /\ inv[h2].alone
        /\ inv[h1].conversationId = inv[h2].conversationId
        /\ Len(RequestsOf(h1, "title")) = 1
        /\ Len(RequestsOf(h2, "title")) = 1
        /\ inv[h2].conversation[1].title = <<>>

\* a create turn has run to line 279: its stream ended (naturally or by
\* AbortError) and its assistant message and updated_at were written
Completed(h) == inv[h].kind = "create" /\ TurnOver(h) /\ inv[h].touched = 1

\* C11: a create turn issues the title request exactly when it has completed
\* and the conversation row it read at its start had a NULL title; a
\* regenerate turn never issues one.
C11_TitleRunsIffUnsetAtStart ==
    \A h \in Cmds :
        /\ inv[h].kind = "regen" => Len(RequestsOf(h, "title")) = 0
        /\ (inv[h].kind = "create" /\ ~Completed(h)) => Len(RequestsOf(h, "title")) = 0
        /\ Completed(h) =>
              (Len(RequestsOf(h, "title")) = 1 <=> inv[h].conversation[1].title = <<>>)

C11_Witness ==
    \E h \in Cmds :
        /\ Completed(h)
        /\ inv[h].pc = "awaitTitle"
        /\ Len(RequestsOf(h, "title")) = 1
        /\ FindFirst(inv[h].conversationId) # <<>>
        /\ FindFirst(inv[h].conversationId)[1].title = << <<"R">> >>

\* C12: when the title deriver writes a conversation's title, that title was
\* NULL until then (so it writes at most once per conversation and never over
\* a title set by an earlier derivation or by renameConversation).
C12_DeriverNeverOverwrites ==
    [][\A h \in Cmds :
         (/\ inv[h].pc = "awaitTitle"
          /\ inv'[h].titleEnd = "set"
          /\ FindFirst(inv[h].conversationId) # <<>>)
         => FindFirst(inv[h].conversationId)[1].title = <<>>]_vars

InFlight(h) == inv[h].pc \in {"awaitStream", "stream"}

\* C14: a chat.stream.cancel frame that arrives while a generation is in
\* flight fires the signal that generation was started with, when every other
\* command dispatched so far was a regenerate that was rejected.
C14_CancelFiresInFlightSignal ==
    [][\A h \in Cmds :
         (/\ abortedTokens' # abortedTokens
          /\ InFlight(h)
          /\ \A g \in Cmds \ {h} : inv[g].kind = "none" \/ inv[g].end = "rejected")
         => inv[h].signal \in abortedTokens']_vars

\* C15: the steps of a regenerate whose stream ended naturally: the done frame
\* carries no action; the update changes the content of the retained assistant
\* message to the produced text and nothing else, so the table keeps its
\* length; the touch raises updated_at of the conversation and leaves its
\* title; and the regenerate never sends a title frame.
C15_RegenOverwritesInPlace ==
    [][\A h \in Cmds :
         (inv[h].kind = "regen" /\ inv[h].end = "natural") =>
            /\ (inv[h].pc = "sendDone" /\ inv'[h].pc # "sendDone") =>
                  /\ out' = Append(out, DoneMessage(h, inv[h].conversationId, <<>>))
                  /\ messages' = messages
                  /\ conversations' = conversations
            /\ (inv[h].pc = "updateAssistant" /\ inv'[h].pc # "updateAssistant") =>
                  /\ Len(messages') = Len(messages)
                  /\ \A i \in 1..Len(messages) :
                        IF messages[i].id = inv[h].lastAssistantMessageId
                        THEN messages'[i] = [messages[i] EXCEPT !.content = inv[h].response]
                        ELSE messages'[i] = messages[i]
                  /\ out' = out
                  /\ conversations' = conversations
            /\ (inv[h].pc = "touch" /\ inv'[h].pc # "touch") =>
                  /\ messages' = messages
                  /\ out' = out
                  /\ inv'[h].pc = "done"
                  /\ \A c \in ConvIds :
                        IF c = inv[h].conversationId /\ conversations[c] # <<>>
                        THEN /\ conversations'[c] # <<>>
                             /\ conversations'[c][1].updated_at > conversations[c][1].updated_at
                             /\ conversations'[c][1].title = conversations[c][1].title
                        ELSE conversations'[c] = conversations[c]
            /\ (Len(FramesOf(h, "conversation.title.update")) = 0)'
            /\ (Len(FramesOf(h, "chat.stream.done")) <= 1)']_vars

C15_Witness ==
    \E h \in Cmds :
        /\ inv[h].kind = "regen"
        /\ inv[h].pc = "done"
        /\ inv[h].end = "natural"
        /\ inv[h].touched = 1
        /\ inv[h].response = <<>>
        /\ Len(PlainDone(h)) = 1
        /\ Len(messages) = Len(StoredMessages)
        /\ \E i \in 1..Len(messages) :
              /\ messages[i].id = inv[h].lastAssistantMessageId
              /\ StoredMessages[i].content # <<>>
              /\ messages[i].content = <<>>

\* C16: the step in which the title derivation of a turn fails (the request
\* rejects, its output does not parse, or the title is empty) sends no frame,
\* writes neither table, issues no request and ends the handler; the turn has
\* then sent no error frame and has issued the title request once.
C16_TitleFailureSilent ==
    [][\A h \in Cmds :
         (inv[h].titleEnd = "none" /\ inv'[h].titleEnd = "kept") =>
            /\ out' = out
            /\ conversations' = conversations
            /\ messages' = messages
            /\ provider' = provider
            /\ inv'[h].pc = "done"
            /\ inv'[h].stored = inv[h].stored
            /\ (Len(FramesOf(h, "error")) = 0)'
            /\ (Len(RequestsOf(h, "title")) = 1)']_vars

C16_Witness ==
    \E h \in Cmds :
        /\ inv[h].titleEnd = "kept"
        /\ inv[h].pc = "done"
        /\ Len(inv[h].stored) = 1
        /\ Len(PlainDone(h)) = 1
        /\ Len(FramesOf(h, "chat.stream.response")) = 1
        /\ FindFirst(inv[h].conversationId) # <<>>
        /\ FindFirst(inv[h].conversationId)[1].title = <<>>

\* C17: the dispatch of a frame of another type changes nothing but the
\* count of such frames: no table, no controller, no request, no frame sent,
\* no invocation.
C17_OtherFrameIgnored ==
    [][ignored' # ignored =>
         UNCHANGED <<conversations, messages, nextMsgId, nextConvId, abortController,
                     nTokens, abortedTokens, inv, nCmds, rpcVars, running, deleting, out,
                     provider>>]_vars

C17_Witness ==
    /\ ignored = 1
    /\ \E h \in Cmds : InFlight(h) /\ inv[h].signal = abortController
    /\ abortedTokens = {}

\* the frames a step appends to the channel
Sent == SubSeq(out', Len(out) + 1, Len(out'))

\* the frames of type chat.stream.done among them that carry an action
SentInterim == SelectSeq(Sent, LAMBDA f : f.type = "chat.stream.done" /\ f.function_call # <<>>)

\* the step consumes one delta of the stream of h
ChunkStep(h) == inv'[h].chunks = inv[h].chunks + 1

\* C18: a delta after which an interim frame (chat.stream.done with a
\* function_call) is sent contained at least one tool-call fragment; a
\* text-only delta sends none.
C18_InterimOnlyAfterToolDelta ==
    [][\A h \in Cmds :
         (ChunkStep(h) /\ SentInterim # <<>>) => inv'[h].fragments # inv[h].fragments]_vars

\* the accumulated entry with the lowest call index
LowestIndexEntry(map) ==
    LET entries == {map[k] : k \in 1..Len(map)} IN
    CHOOSE e \in entries : \A f \in entries : e.index <= f.index

\* C19: the entry an interim frame reports is the accumulated entry with the
\* lowest call index, in whatever order the fragments arrived.
C19_FirstIsLowestIndex ==
    [][\A h \in Cmds :
         (ChunkStep(h) /\ SentInterim # <<>>) =>
            \A k \in 1..Len(SentInterim) :
               SentInterim[k].function_call[1].name
                  = LowestIndexEntry(inv'[h].toolCallMap).name]_vars

\* C20: a turn that has issued its title request has already inserted its
\* assistant message and sent its turn-complete frame, and while the request
\* is outstanding the handler does not hold the thread, so frames that arrive
\* are dispatched.
C20_TitleNeverBlocks ==
    \A h \in Cmds :
        /\ Len(RequestsOf(h, "title")) > 0 =>
              /\ Len(inv[h].stored) = 1
              /\ Len(PlainDone(h)) = 1
              /\ inv[h].touched = 1
        /\ inv[h].pc = "awaitTitle" => running # h

C20_Witness ==
    \E h, g \in Cmds :
        /\ inv[h].pc = "awaitTitle"
        /\ inv[g].kind = "create"
        /\ inv[g].userRow = inv[h].userRow + 2
        /\ inv[g].end = "natural"
        /\ inv[g].pc = "done"
        /\ Len(inv[g].stored) = 1
        /\ Len(PlainDone(g)) = 1

\* the lookup of lines 142-145 of create turn h has run and found no row
NotFound(h) ==
    /\ inv[h].kind = "create"
    /\ inv[h].pc # "findConversation"
    /\ inv[h].conversation = <<>>

\* C21: a create turn whose conversation id names no row has ended with one
\* error frame carrying its correlation id; it inserted no message, issued no
\* request to the provider, sent no other frame and does not hold the thread.
C21_UnknownConversationRejected ==
    \A h \in Cmds :
        NotFound(h) =>
            /\ inv[h].pc = "done"
            /\ inv[h].end = "error"
            /\ running # h
            /\ Len(FramesOf(h, "error")) = 1
            /\ Len(FramesOf(h, "chat.stream.response")) = 0
            /\ Len(FramesOf(h, "chat.stream.done")) = 0
            /\ Len(FramesOf(h, "conversation.title.update")) = 0
            /\ \A k \in 1..Len(provider) : provider[k].by # h
            /\ inv[h].userRow = 0
            /\ inv[h].stored = <<>>
            /\ inv[h].touched = 0

C21_Witness ==
    \E h, g \in Cmds :
        /\ h < g
        /\ NotFound(h)
        /\ messages # <<>>
        /\ \A k \in 1..Len(messages) : messages[k].id >= inv[g].userRow
        /\ inv[g].kind = "create"
        /\ inv[g].end = "natural"
        /\ inv[g].pc = "done"
        /\ Len(inv[g].stored) = 1

\* C22: a chat.stream.cancel frame dispatched while no generation is in
\* flight writes neither table, sends no frame, issues no request and touches
\* no invocation; and the signal a generation is started with has not been
\* fired when its request is issued.
C22_IdleCancelHarmless ==
    [][/\ (abortedTokens' # abortedTokens /\ \A h \in Cmds : ~InFlight(h)) =>
            UNCHANGED <<conversations, messages, nextMsgId, nextConvId, out, provider, inv>>
       /\ \A h \in Cmds :
            (~InFlight(h) /\ InFlight(h)') => inv'[h].signal \notin abortedTokens']_vars

C22_Witness ==
    /\ nCmds = 1
    /\ abortedTokens # {}
    /\ \A t \in abortedTokens : t < inv[1].signal
    /\ inv[1].pc = "done"
    /\ inv[1].end = "natural"
    /\ Len(inv[1].stored) = 1
    /\ Len(PlainDone(1)) = 1

\* C23: when a regenerate is rejected by the test of lines 373-376, the
\* controller the object holds afterwards is the one whose signal the
\* generation in flight was started with.
C23_RejectionKeepsController ==
    [][\A h \in Cmds :
         (inv[h].end = "none" /\ inv'[h].end = "rejected") =>
            \A g \in Cmds : InFlight(g) => inv[g].signal = abortController']_vars

\* C24: when a regenerate runs the update of lines 452-457, the row it
\* updates, if it still exists, is the last row of its conversation.
C24_RegenOverwritesLast ==
    [][\A h \in Cmds :
         (inv[h].kind = "regen" /\ inv[h].pc = "updateAssistant" /\ inv'[h].pc = "touch") =>
            LET rows == FindMany(inv[h].conversationId) IN
            (\E i \in 1..Len(rows) : rows[i].id = inv[h].lastAssistantMessageId)
               => rows[Len(rows)].id = inv[h].lastAssistantMessageId]_vars

\* C25: whenever no handler holds the thread and no deleteConversation is
\* under way, every row of messages names a conversation that has a row.
C25_NoOrphanMessages ==
    Quiet =>
        \A k \in 1..Len(messages) :
            /\ messages[k].conversation_id \in ConvIds
            /\ conversations[messages[k].conversation_id] # <<>>

\* C26: a request for a method other than anonymousRegister whose handler ran
\* carried an authorization header whose value is a registered access token.
C26_HandlerOnlyWithRegisteredToken ==
    \A k \in 1..Len(calls) :
        (calls[k].method \notin PUBLIC_ROUTES /\ calls[k].reached) =>
            /\ calls[k].authorization # <<>>
            /\ calls[k].authorization[1] \in kv

====
